---- MODULE Spec2Model ----
(***************************************************************************)
(* Admin Directory Service: back-end/src/routers/admin.py.                 *)
(*                                                                         *)
(* The six route handlers (get_admins, create_admin, get_admin,            *)
(* patch_admin, delete_admin, search_admins) over the Admin table.  The    *)
(* table, the identity dependency (require_roles) and the password hasher  *)
(* live in other modules of the repository; they are modelled from their   *)
(* documented contracts and the handlers are translated from the router.   *)
(*                                                                         *)
(* Text values (username, password) are sequences of one-character         *)
(* strings so that ILIKE and hashing are computed, not tabulated.  The     *)
(* columns the handlers only copy (name parts, birthday, address) behave   *)
(* exactly like gender and are represented by it.                          *)
(***************************************************************************)
EXTENDS Integers, Sequences, FiniteSets, TLC

VARIABLES
  db,       \* the Admin table: id -> row, for the ids that have a row
  nextId,   \* the identifier the next inserted row receives
  user,     \* _user: the token claims of the client now issuing requests
  pending,  \* per session, the create_admin awaiting its commit (<<>> if none)
  resp      \* the response to the latest request of that client

vars == <<db, nextId, user, pending, resp>>

----------------------------------------------------------------------------
(* Bounds of the model *)

\* identifiers ever assigned (ids are never reused)
MaxAdmins == 3
\* largest offset a caller passes
MaxOffset == 1

(* Program constants *)

\* Query(default=100, le=100)
LimitCap == 100

----------------------------------------------------------------------------
(* Value domains *)

SUPER_ADMIN == "SUPER_ADMIN"
GENERAL_ADMIN == "GENERAL_ADMIN"

AdminRole == {SUPER_ADMIN, GENERAL_ADMIN}
AdminStatus == {"ACTIVE", "INACTIVE"}
LogicalOperator == {"AND", "OR", "NOT"}

Ids == 1..MaxAdmins
Usernames == {<<"a">>, <<"A", "b">>}
Emails == {"x@h.ir", "y@h.ir"}
NationalIds == {"001", "002"}
Plaintexts == {<<"p">>, <<"q">>}

----------------------------------------------------------------------------
(* Collaborators *)

\* utilities.authentication.get_password_hash: a one-way transform whose
\* output is never its input
get_password_hash(password) == <<"$2b$">> \o password

\* the string form of an identifier, as the token carries it
str(uuid) == <<"uuid", uuid>>

\* UUID(_user["id"]): parse the string form back
UUID(s) == s[2]

\* session.get(Admin, ident): the row or nothing; the result is a sequence
\* of zero or one row
session_get(table, ident) ==
  IF ident \in DOMAIN table THEN <<table[ident]>> ELSE <<>>

\* the unique constraints on username, email and national_id: whether
\* writing `row` violates one of them against another row of the table
IntegrityError(table, row) ==
  \E i \in DOMAIN table :
    /\ i # row.id
    /\ \/ table[i].username = row.username
       \/ table[i].email = row.email
       \/ table[i].national_id = row.national_id

\* the rows of the table in physical (insertion) order
RECURSIVE scalars_from(_, _)
scalars_from(table, i) ==
  IF i > MaxAdmins THEN <<>>
  ELSE (IF i \in DOMAIN table THEN <<table[i]>> ELSE <<>>) \o scalars_from(table, i + 1)

scalars(table) == scalars_from(table, 1)

\* .offset(offset).limit(limit) applied to a result sequence
Window(rows, offset, limit) ==
  SubSeq(rows, offset + 1, IF offset + limit < Len(rows) THEN offset + limit ELSE Len(rows))

\* the identity require_roles hands to a handler: the claims of the token
\* issued to admin i when its record had role r
Token(i, r) == [role |-> r, id |-> str(i)]

----------------------------------------------------------------------------
(* Responses *)

NoArgs == [none |-> TRUE]

\* kind: "record" (one row), "list" (a page), "null" (None), "error"
Response(op, _user, args, status, kind, rows) ==
  [op |-> op, user |-> _user, args |-> args, status |-> status, kind |-> kind, rows |-> rows]

HTTPException(op, _user, args, status) == Response(op, _user, args, status, "error", <<>>)

NoResponse == Response("none", Token(0, ""), NoArgs, 0, "error", <<>>)

----------------------------------------------------------------------------
(* State *)

\* the seeded administrator the deployment starts with
SeedAdmin ==
  [id |-> 1, username |-> <<"a">>, email |-> "x@h.ir", national_id |-> "001",
   role |-> SUPER_ADMIN, status |-> "ACTIVE", gender |-> "male", phone |-> 912,
   password |-> get_password_hash(<<"p">>)]

Sessions == {1, 2}

Init ==
  /\ db = (1 :> SeedAdmin)
  /\ nextId = 2
  /\ user = Token(1, SUPER_ADMIN)
  /\ pending = [s \in Sessions |-> <<>>]
  /\ resp = NoResponse

----------------------------------------------------------------------------
(* Identity: require_roles(SUPER_ADMIN, GENERAL_ADMIN) *)

\* `user` is the identity of the client now issuing requests.  A stored
\* admin whose role is on the allow-list obtains a token carrying the role
\* its record has at that moment; the token stays valid afterwards,
\* whatever becomes of the record.  `resp` is the response to the latest
\* request of that client, so a new client starts with none.
Login(i) ==
  /\ i \in DOMAIN db
  /\ db[i].role \in AdminRole
  /\ user # Token(i, db[i].role)
  /\ user' = Token(i, db[i].role)
  /\ resp' = NoResponse
  /\ UNCHANGED <<db, nextId, pending>>

----------------------------------------------------------------------------
(* Ownership check shared by get_admin, patch_admin and delete_admin *)

\* the comparison inverted
Forbidden_inverted(_user, admin_id) ==
  _user.role = GENERAL_ADMIN /\ admin_id = UUID(_user.id)

Forbidden(_user, admin_id) ==
  _user.role = GENERAL_ADMIN /\ admin_id # UUID(_user.id)

----------------------------------------------------------------------------
(* GET /admins/ *)

\* session.get is given _user["id"], the string form; the key it names is
\* the identifier that string parses to
get_admins(offset, limit) ==
  LET _user == user
      args == [offset |-> offset, limit |-> limit]
  IN /\ IF _user.role = GENERAL_ADMIN
          THEN LET admin == session_get(db, UUID(_user.id))
               IN resp' = Response("get_admins", _user, args, 200,
                                   IF admin = <<>> THEN "null" ELSE "record", admin)
          ELSE LET admins_list == Window(scalars(db), offset, limit)
               IN resp' = Response("get_admins", _user, args, 200, "list", admins_list)
     /\ UNCHANGED <<db, nextId, user, pending>>

----------------------------------------------------------------------------
(* POST /admins/ *)

\* the requested role honoured for every caller
final_role_requested(_user, admin_create) == admin_create.role

final_role(_user, admin_create) ==
  IF _user.role = GENERAL_ADMIN THEN GENERAL_ADMIN ELSE admin_create.role

\* Admin(...): the record built from the request, before it has a row
db_admin(_user, admin_create) ==
  [username |-> admin_create.username,
   email |-> admin_create.email,
   national_id |-> admin_create.national_id,
   role |-> final_role(_user, admin_create),
   status |-> admin_create.status,
   gender |-> admin_create.gender,
   phone |-> admin_create.phone,
   password |-> get_password_hash(admin_create.password)]

\* the generic handler catching every exception
create_admin_except_generic(exc) == 500

\* the status the except clauses give an exception raised by the commit
create_admin_except(exc) ==
  IF exc = "IntegrityError" THEN 409 ELSE 500

\* the handler's locals when it awaits session.commit()
create_admin_locals(_user, admin_create) ==
  [user |-> _user, admin_create |-> admin_create,
   db_admin |-> db_admin(_user, admin_create)]

\* session.commit() for the added record, and the handler from there to
\* its response: the row is inserted unless a unique constraint rejects it
create_admin_finish(p) ==
  LET row == [id |-> nextId] @@ p.db_admin
      args == [admin_create |-> p.admin_create]
  IN IF IntegrityError(db, row)
       THEN /\ resp' = HTTPException("create_admin", p.user, args,
                                     create_admin_except("IntegrityError"))
            /\ UNCHANGED <<db, nextId>>
       ELSE /\ nextId <= MaxAdmins
            /\ db' = (nextId :> row) @@ db
            /\ nextId' = nextId + 1
            /\ resp' = Response("create_admin", p.user, args, 200, "record", <<row>>)

\* the handler run with no other request between its start and its commit
create_admin(admin_create) ==
  /\ nextId <= MaxAdmins
  /\ create_admin_finish(create_admin_locals(user, admin_create))
  /\ UNCHANGED <<user, pending>>

\* the handler up to its await on session.commit(), in session s
create_admin_begin(s, admin_create) ==
  /\ pending[s] = <<>>
  /\ nextId <= MaxAdmins
  /\ pending' = [pending EXCEPT ![s] = <<create_admin_locals(user, admin_create)>>]
  /\ resp' = NoResponse
  /\ UNCHANGED <<db, nextId, user>>

\* the handler of session s from its await on
create_admin_commit(s) ==
  /\ pending[s] # <<>>
  /\ create_admin_finish(pending[s][1])
  /\ pending' = [pending EXCEPT ![s] = <<>>]
  /\ UNCHANGED user

----------------------------------------------------------------------------
(* GET /admins/{admin_id} *)

get_admin(admin_id) ==
  LET _user == user
      args == [admin_id |-> admin_id]
      admin == session_get(db, admin_id)
  IN /\ resp' = IF Forbidden(_user, admin_id)
                  THEN HTTPException("get_admin", _user, args, 403)
                ELSE IF admin = <<>>
                  THEN HTTPException("get_admin", _user, args, 404)
                ELSE Response("get_admin", _user, args, 200, "record", admin)
     /\ UNCHANGED <<db, nextId, user, pending>>

----------------------------------------------------------------------------
(* PATCH /admins/{admin_id} *)

\* admin_update.model_dump(exclude_unset=True): the fields the request set
admin_data(admin_update) ==
  [k \in DOMAIN admin_update |-> admin_update[k]]

\* the password hashed whether or not the request carried one
extra_data_always(data) ==
  [k \in {"password"} |->
     get_password_hash(IF "password" \in DOMAIN data THEN data["password"] ELSE <<>>)]

\* the password never hashed
extra_data_never(data) == [k \in {} |-> <<>>]

extra_data(data) ==
  IF "password" \in DOMAIN data
    THEN [k \in {"password"} |-> get_password_hash(data["password"])]
    ELSE [k \in {} |-> <<>>]

\* admin.sqlmodel_update(obj, update=update): every key of {**obj, **update}
\* that is a column is set on the record
sqlmodel_update(admin, obj, update) ==
  [k \in DOMAIN admin |->
     IF k \in DOMAIN update THEN update[k]
     ELSE IF k \in DOMAIN obj THEN obj[k]
     ELSE admin[k]]

patch_admin(admin_id, admin_update) ==
  LET _user == user
      args == [admin_id |-> admin_id, admin_update |-> admin_update]
      admin == session_get(db, admin_id)
  IN /\ IF Forbidden(_user, admin_id)
          THEN /\ resp' = HTTPException("patch_admin", _user, args, 403)
               /\ UNCHANGED db
        ELSE IF admin = <<>>
          THEN /\ resp' = HTTPException("patch_admin", _user, args, 404)
               /\ UNCHANGED db
        ELSE LET data == admin_data(admin_update)
                 updated == sqlmodel_update(admin[1], data, extra_data(data))
             IN IF IntegrityError(db, updated)
                  \* the commit raises and nothing catches it
                  THEN /\ resp' = HTTPException("patch_admin", _user, args, 500)
                       /\ UNCHANGED db
                  ELSE /\ db' = [db EXCEPT ![admin_id] = updated]
                       /\ resp' = Response("patch_admin", _user, args, 200, "record",
                                           <<updated>>)
     /\ UNCHANGED <<nextId, user, pending>>

----------------------------------------------------------------------------
(* DELETE /admins/{admin_id} *)

delete_admin(admin_id) ==
  LET _user == user
      args == [admin_id |-> admin_id]
      admin == session_get(db, admin_id)
  IN /\ IF Forbidden(_user, admin_id)
          THEN /\ resp' = HTTPException("delete_admin", _user, args, 403)
               /\ UNCHANGED db
        ELSE IF admin = <<>>
          THEN /\ resp' = HTTPException("delete_admin", _user, args, 404)
               /\ UNCHANGED db
        ELSE /\ db' = [j \in DOMAIN db \ {admin_id} |-> db[j]]
             /\ resp' = Response("delete_admin", _user, args, 200, "record", admin)
     /\ UNCHANGED <<nextId, user, pending>>

----------------------------------------------------------------------------
(* GET /admins/search/ *)

SearchFields == <<"username", "email", "role", "status", "national_id", "gender", "phone">>

\* the value of a parameter for which Python's `if value:` is false
Falsy(f) ==
  CASE f = "username" -> <<>>
    [] f = "phone" -> 0
    [] OTHER -> ""

\* `if username:` ... `if phone:`
truthy(q, f) == f \in DOMAIN q /\ q[f] # Falsy(f)

\* the filter fields whose predicate is appended, in the order of the code
conditions(q) == SelectSeq(SearchFields, LAMBDA f : truthy(q, f))

lower(c) ==
  CASE c = "A" -> "a"
    [] c = "B" -> "b"
    [] OTHER -> c

Lower(text) == [k \in 1..Len(text) |-> lower(text[k])]

\* column ILIKE '%' || part || '%'
ilike(text, part) ==
  \E k \in 0..(Len(text) - Len(part)) :
    SubSeq(Lower(text), k + 1, k + Len(part)) = Lower(part)

\* the predicate appended for field f, evaluated on a row
condition(f, q, row) ==
  IF f = "username" THEN ilike(row.username, q.username) ELSE row[f] = q[f]

\* not_(*conditions) accepts exactly one clause
not_raises(c) == Len(c) # 1

\* the WHERE clause the operator builds
where(operator, c, q, row) ==
  CASE operator = "AND" -> \A k \in 1..Len(c) : condition(c[k], q, row)
    [] operator = "OR" -> \E k \in 1..Len(c) : condition(c[k], q, row)
    [] operator = "NOT" -> ~condition(c[1], q, row)

search_admins(q, operator, offset, limit) ==
  LET _user == user
      args == [q |-> q, operator |-> operator, offset |-> offset, limit |-> limit]
      c == conditions(q)
      admins == Window(SelectSeq(scalars(db), LAMBDA row : where(operator, c, q, row)),
                       offset, limit)
  IN /\ resp' = IF c = <<>>
                  THEN HTTPException("search_admins", _user, args, 400)
                ELSE IF operator = "NOT" /\ not_raises(c)
                  \* TypeError, which nothing catches
                  THEN HTTPException("search_admins", _user, args, 500)
                ELSE IF admins = <<>>
                  THEN HTTPException("search_admins", _user, args, 404)
                ELSE Response("search_admins", _user, args, 200, "list", admins)
     /\ UNCHANGED <<db, nextId, user, pending>>

----------------------------------------------------------------------------
(* Requests the model issues *)

Offsets == 0..MaxOffset
Limits == {1, LimitCap}

Restrict(r, D) == [k \in D |-> r[k]]

\* POST bodies: two complete identities, each with either role
AdminCreates ==
  {[username |-> <<"a">>, email |-> "x@h.ir", national_id |-> "001", role |-> r,
    status |-> "ACTIVE", gender |-> "male", phone |-> 912, password |-> <<"p">>]
     : r \in AdminRole}
  \cup
  {[username |-> <<"A", "b">>, email |-> "y@h.ir", national_id |-> "002", role |-> r,
    status |-> "ACTIVE", gender |-> "female", phone |-> 935, password |-> <<"p">>]
     : r \in AdminRole}

\* PATCH bodies: no column, a role, a password, both, or a username
AdminUpdates ==
  {Restrict(r, D) : r \in [role : AdminRole, password : {<<"q">>}],
                    D \in SUBSET {"role", "password"}}
  \cup {[username |-> u] : u \in Usernames}

\* POST bodies that agree or differ on each unique column separately
UniqueCreates ==
  [username : Usernames, email : Emails, national_id : NationalIds,
   role : {GENERAL_ADMIN}, status : {"ACTIVE"}, gender : {"male"}, phone : {912},
   password : {<<"p">>}]

\* PATCH bodies that set one unique column
UniqueUpdates ==
  {Restrict(r, {f}) : r \in [username : Usernames, email : Emails,
                             national_id : NationalIds],
                      f \in {"username", "email", "national_id"}}

\* query strings of the search: at most two of the seven filters, with the
\* values a client can send, the empty string and zero among them
Queries ==
  LET full == [username : {<<>>, <<"a">>}, email : {"x@h.ir"}, role : AdminRole,
               status : {"ACTIVE"}, national_id : {"001"}, gender : {"male"},
               phone : {0, 912}]
      names == {SearchFields[k] : k \in 1..Len(SearchFields)}
  IN {Restrict(r, D) : r \in full, D \in {D \in SUBSET names : Cardinality(D) <= 2}}

----------------------------------------------------------------------------
(* The service, one client at a time *)

Next ==
  \/ \E i \in Ids : Login(i)
  \/ \E offset \in Offsets, limit \in Limits : get_admins(offset, limit)
  \/ \E admin_create \in AdminCreates : create_admin(admin_create)
  \/ \E admin_id \in Ids : get_admin(admin_id)
  \/ \E admin_id \in Ids, admin_update \in AdminUpdates :
       patch_admin(admin_id, admin_update)
  \/ \E admin_id \in Ids : delete_admin(admin_id)

Spec == Init /\ [][Next]_vars

----------------------------------------------------------------------------
(* Writers of the unique columns, with two creates in flight *)

NextUnique ==
  \/ \E s \in Sessions, admin_create \in UniqueCreates :
       create_admin_begin(s, admin_create)
  \/ \E s \in Sessions : create_admin_commit(s)
  \/ \E admin_id \in Ids, admin_update \in UniqueUpdates :
       patch_admin(admin_id, admin_update)
  \/ \E admin_id \in Ids : delete_admin(admin_id)

SpecUnique == Init /\ [][NextUnique]_vars

----------------------------------------------------------------------------
(* The read operations over a populated table *)

SampleAdmins ==
  <<SeedAdmin,
    [id |-> 2, username |-> <<"A", "b">>, email |-> "y@h.ir", national_id |-> "002",
     role |-> GENERAL_ADMIN, status |-> "INACTIVE", gender |-> "female", phone |-> 935,
     password |-> get_password_hash(<<"q">>)],
    [id |-> 3, username |-> <<"b">>, email |-> "z@h.ir", national_id |-> "003",
     role |-> GENERAL_ADMIN, status |-> "ACTIVE", gender |-> "male", phone |-> 912,
     password |-> get_password_hash(<<"p">>)]>>

InitSearch ==
  /\ db \in {Restrict(SampleAdmins, D) : D \in SUBSET (1..3) \ {{}}}
  /\ nextId = 4
  /\ user \in {Token(i, db[i].role) : i \in DOMAIN db}
  /\ pending = [s \in Sessions |-> <<>>]
  /\ resp = NoResponse

NextSearch ==
  \/ \E q \in Queries, operator \in LogicalOperator, offset \in Offsets, limit \in Limits :
       search_admins(q, operator, offset, limit)
  \/ \E offset \in Offsets, limit \in Limits : get_admins(offset, limit)
  \/ \E admin_id \in Ids : get_admin(admin_id)

SpecSearch == InitSearch /\ [][NextSearch]_vars

----------------------------------------------------------------------------
(* Properties *)

ByIdOps == {"get_admin", "patch_admin", "delete_admin"}
ReadOps == {"get_admins", "get_admin", "search_admins"}

\* the caller of the latest response is a GENERAL_ADMIN naming another id
OtherAdmin(r) ==
  /\ r.op \in ByIdOps
  /\ r.user.role = GENERAL_ADMIN
  /\ r.args.admin_id # UUID(r.user.id)

\* C1: a get, update or delete by id issued by a GENERAL_ADMIN caller for an
\* id other than the caller's own answers 403, whether or not the id exists
\* (never 404), and the step leaves the table as it was.
C1_ForbiddenBeforePersistence ==
  [][OtherAdmin(resp') => resp'.status = 403 /\ db' = db]_vars

\* C1 case: a GENERAL_ADMIN patched an id that is not its own and is not
\* in the table, and got 403.
C1_Witness ==
  /\ OtherAdmin(resp)
  /\ resp.op = "patch_admin"
  /\ resp.args.admin_id \notin DOMAIN db
  /\ resp.status = 403

\* C2: no read operation (list, get by id, search) returns to a
\* GENERAL_ADMIN caller a record whose id is not the caller's own.
C2_GeneralAdminReadsOnlyOwnRecord ==
  (resp.op \in ReadOps /\ resp.user.role = GENERAL_ADMIN)
    => \A k \in 1..Len(resp.rows) : resp.rows[k].id = UUID(resp.user.id)

SameUnique(a, b) ==
  a.username = b.username \/ a.email = b.email \/ a.national_id = b.national_id

NoSharedUnique(table) ==
  \A i, j \in DOMAIN table : i # j => ~SameUnique(table[i], table[j])

\* C3: a create whose username, email or national_id equals that of a
\* stored record answers 409 and adds no row, also when two creates are in
\* flight together; no two stored records ever share one of the three.
C3_DuplicateCreateConflicts ==
  [][/\ NoSharedUnique(db) /\ NoSharedUnique(db')
     /\ (resp'.op = "create_admin"
          /\ \E i \in DOMAIN db : SameUnique(db[i], resp'.args.admin_create))
        => (resp'.status = 409 /\ db' = db)]_vars

\* C3 case: two creates carrying the same username were in flight together;
\* one has inserted its row and the other is still to commit.
C3_Witness ==
  /\ resp.op = "create_admin"
  /\ resp.status = 200
  /\ \E s \in Sessions :
       /\ pending[s] # <<>>
       /\ pending[s][1].admin_create.username = resp.rows[1].username

\* C4: the record a create persists has role GENERAL_ADMIN when the caller
\* is a GENERAL_ADMIN, whatever role was requested, and the requested role
\* when the caller is a SUPER_ADMIN.
C4_CreatedRole ==
  (resp.op = "create_admin" /\ resp.status = 200)
    => LET id == resp.rows[1].id
       IN /\ id \in DOMAIN db
          /\ db[id].role = IF resp.user.role = GENERAL_ADMIN
                             THEN GENERAL_ADMIN
                             ELSE resp.args.admin_create.role

\* C4 case: a GENERAL_ADMIN caller created a record asking for SUPER_ADMIN.
C4_Witness ==
  /\ resp.op = "create_admin"
  /\ resp.status = 200
  /\ resp.user.role = GENERAL_ADMIN
  /\ resp.args.admin_create.role = SUPER_ADMIN

\* C5: a successful partial update leaves every column absent from the
\* request at its previous value, leaves every other record alone, and
\* with an empty request leaves the whole table alone.
C5_PatchFrame ==
  [][(resp'.op = "patch_admin" /\ resp'.status = 200)
       => LET id == resp'.args.admin_id
              sent == DOMAIN resp'.args.admin_update
          IN /\ DOMAIN db' = DOMAIN db
             /\ id \in DOMAIN db
             /\ \A f \in DOMAIN db[id] \ sent : db'[id][f] = db[id][f]
             /\ \A j \in DOMAIN db \ {id} : db'[j] = db[j]
             /\ (sent = {} => db' = db)]_vars

\* C5 case: an update that carried only a role succeeded and set it; every
\* other column of the record was absent from the request.
C5_Witness ==
  /\ resp.op = "patch_admin"
  /\ resp.status = 200
  /\ DOMAIN resp.args.admin_update = {"role"}
  /\ resp.rows[1].role = SUPER_ADMIN
  /\ resp.user.role = GENERAL_ADMIN

Hashes == {get_password_hash(p) : p \in Plaintexts}

\* C6: the password of every stored record is the hasher's output for a
\* submitted plaintext and is no submitted plaintext; after an update that
\* carried a password the record holds the hash of that password.
C6_PasswordIsHashed ==
  /\ \A i \in DOMAIN db : db[i].password \in Hashes /\ db[i].password \notin Plaintexts
  /\ (resp.op = "patch_admin" /\ resp.status = 200
        /\ "password" \in DOMAIN resp.args.admin_update)
       => LET sent == resp.args.admin_update["password"]
              stored == db[resp.args.admin_id].password
          IN stored = get_password_hash(sent) /\ stored # sent

\* C6 case: an update carrying a password succeeded on a record created
\* with another password.
C6_Witness ==
  /\ resp.op = "patch_admin"
  /\ resp.status = 200
  /\ "password" \in DOMAIN resp.args.admin_update
  /\ resp.args.admin_id >= 2

\* what a NOT search is to return: the rows for which the conjunction of
\* the predicates of all supplied filters is false, within the window
NotExpected(r) ==
  LET q == r.args.q
  IN Window(SelectSeq(scalars(db),
                  LAMBDA row : ~(\A f \in DOMAIN q : condition(f, q, row))),
            r.args.offset, r.args.limit)

\* C7: a search with combinator NOT and one or several supplied filters
\* evaluates the query and returns exactly the records, within the
\* offset/limit window, for which the conjunction of the supplied
\* predicates is false.  The searches are those whose supplied values are
\* all non-empty and non-zero, so that every supplied filter has a
\* predicate.
C7_NotNegatesConjunction ==
  (/\ resp.op = "search_admins"
   /\ resp.args.operator = "NOT"
   /\ DOMAIN resp.args.q # {}
   /\ \A f \in DOMAIN resp.args.q : truthy(resp.args.q, f))
    => /\ resp.status \in {200, 404}
       /\ resp.rows = NotExpected(resp)

\* C8: a search answers 400 exactly when none of the seven filters is
\* supplied, and builds a predicate for every supplied filter, the empty
\* username and phone 0 included.
C8_BadRequestIffNoFilter ==
  resp.op = "search_admins"
    => /\ (resp.status = 400) <=> (DOMAIN resp.args.q = {})
       /\ Len(conditions(resp.args.q)) = Cardinality(DOMAIN resp.args.q)

SuperAdmins(table) == {i \in DOMAIN table : table[i].role = SUPER_ADMIN}

\* C10: no create or update issued by a GENERAL_ADMIN caller raises the
\* number of records whose role is SUPER_ADMIN.
C10_GeneralAdminCannotPromote ==
  [][(resp'.op \in {"create_admin", "patch_admin"} /\ resp'.user.role = GENERAL_ADMIN)
       => Cardinality(SuperAdmins(db')) <= Cardinality(SuperAdmins(db))]_vars

----------------------------------------------------------------------------
====
